---- MODULE Spec2Model ----
(***************************************************************************)
(* Batch orchestration of the sf-tennis scripts:                           *)
(*   "tennis": TennisAvailabilityChecker.check_all_courts_parallel         *)
(*   "gmaps" : GoogleMapsDistanceCalculator main / calculate_all_distances *)
(*   "dist"  : DistanceCalculator main / calculate_all_distances (serial)  *)
(* A court is an index 1..ncourts standing for its (name, url) record.     *)
(* An optional value is a sequence: <<>> is None, <<x>> is the value x.    *)
(***************************************************************************)
EXTENDS Integers, Sequences, FiniteSets, TLC

\* ---------------------------------------------------------------- bounds
MaxTargets == 2
MaxMinutes == 2
MaxElems == 2
MaxTokens == 2
MaxRefMonth == 3
MaxRefDay == 15
MaxDaysAhead == 3
MaxCalls == 3

\* ------------------------------------------------------ program constants
DefaultMaxWorkers == 4
TennisDefaultWorkers == 3
SecondsPerMinute == 60
SecondsPerHour == 3600

None == <<>>
Some(x) == <<x>>

DebugFile == 0

VARIABLES
    prog,        \* which script runs
    listing,     \* whether the file that lists the courts is there
    ncourts,     \* number of loaded court records
    rec,         \* rec[t]: shape of record t ("ok", "noname", "nourl", "noaddr")
    cname,       \* cname[t]: the court's name (equal numbers = equal names)
    dateInput,   \* the date phrase given on the command line
    passed,      \* whether the caller passes max_workers
    maxWorkers,  \* the value of the max_workers parameter
    mpc,         \* position of the main thread
    poolSize,    \* max_workers of the ThreadPoolExecutor, 0 before it exists
    submitted,   \* number of courts submitted to the executor so far
    tpc,         \* tpc[t]: position of the task of court t
    drv,         \* drv[i]: the driver field of instance i, 0 is None
    sess,        \* sess[s]: state of the browser session created in task s
    users,       \* users[s]: tasks that issued a command (or quit) on s
    avail,       \* avail[t]: availability info held by the task of court t
    tres,        \* tres[t]: optional result dict built by the task
    completion,  \* courts in the order their futures finished
    initial,     \* futures as_completed found finished when it was called
    yielded,     \* courts whose futures as_completed has yielded
    results,     \* the results list
    batch,       \* "none", "returned" or "raised"
    wfile,       \* wfile[t]: optional file the task holds open for writing
    disk,        \* files present on disk
    report,      \* optional content of court_distances.json
    writes,      \* number of times court_distances.json was opened for writing
    idx,         \* loop index of the serial calculator
    fault,       \* fault[t]: optional fault raised while court t was handled:
                 \* its message and the call that raised it
    theCall,     \* a single call of a method: its name and its arguments
    outcome      \* optional outcome of that call

vars == <<prog, listing, ncourts, rec, cname, dateInput, passed, maxWorkers,
          mpc, poolSize,
          submitted, tpc, drv, sess, users, avail, tres, completion, initial,
          yielded, results, batch, wfile, disk, report, writes, idx, fault,
          theCall, outcome>>

\* What no step of a batch changes: its inputs, and the single method call
\* that is looked at on its own
inputs == <<prog, listing, ncourts, rec, cname, dateInput, passed, maxWorkers,
           theCall,
           outcome>>

Courts == 1..ncourts

\* The instance whose driver field a task uses: 0 is the orchestrating
\* instance (self), t the instance created inside the task of court t.
WorkerInstanceShared(t) == 0

WorkerInstance(t) == t

Parallel == prog \in {"tennis", "gmaps"}

\* Records as the loaders build them. load_court_urls and get_court_urls
\* construct {'name', 'url'} dicts themselves; court_addresses.json is read
\* as it is.
Shapes(p) ==
    IF p = "dist" THEN {"ok", "noaddr", "noname", "nourl"} ELSE {"ok"}

Names(p, n) ==
    IF p = "tennis"
    THEN {[t \in 1..n |-> t], [t \in 1..n |-> IF t = 2 THEN 1 ELSE t]}
    ELSE {[t \in 1..n |-> t]}

DateInputs(p) ==
    IF p = "tennis" THEN {"none", "overflow"} ELSE {"none"}

\* The default of the max_workers parameter
DefaultOf(p) ==
    IF p = "tennis" THEN TennisDefaultWorkers
    ELSE IF p = "gmaps" THEN DefaultMaxWorkers
    ELSE 1

\* check_all_courts_parallel(date_input, max_workers) and
\* calculate_all_distances(origin_address, court_urls[, max_workers]); the
\* serial calculator has no such parameter
Passing(p) == IF p = "dist" THEN {FALSE} ELSE BOOLEAN

\* Values a caller passes
WorkerArgs(p, n) ==
    IF p = "tennis" THEN 1..n
    ELSE IF p = "gmaps" THEN (1..n) \cup {DefaultMaxWorkers}
    ELSE {1}

\* The tennis checker reads the newest tennis_urls_*.json and the serial
\* calculator court_addresses.json; the maps calculator scrapes its list.
Listings(p) == IF p = "gmaps" THEN {"present"} ELSE {"absent", "present"}

\* Length of the list load_court_urls / load_court_addresses returns: the
\* empty list when the file is not there
Loaded(l) == IF l = "absent" THEN {0} ELSE 0..MaxTargets

Min(a, b) == IF a < b THEN a ELSE b

\* calculate_all_distances: the default max_workers is scaled by the list size
EffectiveWorkers(w, n) ==
    IF w = DefaultMaxWorkers
    THEN IF n < 10 THEN Min(2, n)
         ELSE IF n < 20 THEN Min(3, n)
         ELSE Min(4, n)
    ELSE w

Init ==
    /\ prog \in {"tennis", "gmaps", "dist"}
    /\ listing \in Listings(prog)
    /\ ncourts \in Loaded(listing)
    /\ rec \in [1..ncourts -> Shapes(prog)]
    /\ cname \in Names(prog, ncourts)
    /\ dateInput \in DateInputs(prog)
    /\ passed \in Passing(prog)
    /\ maxWorkers \in IF passed THEN WorkerArgs(prog, ncourts)
                      ELSE {DefaultOf(prog)}
    /\ mpc = "load"
    /\ poolSize = 0
    /\ submitted = 0
    /\ tpc = [t \in 1..ncourts |-> "new"]
    /\ drv = [i \in 0..ncourts |-> 0]
    /\ sess = [s \in 1..ncourts |-> "none"]
    /\ users = [s \in 1..ncourts |-> {}]
    /\ avail = [t \in 1..ncourts |-> None]
    /\ tres = [t \in 1..ncourts |-> None]
    /\ completion = <<>>
    /\ initial = {}
    /\ yielded = {}
    /\ results = <<>>
    /\ batch = "none"
    /\ wfile = [t \in 1..ncourts |-> None]
    /\ disk = {}
    /\ report = None
    /\ writes = 0
    /\ idx = 0
    /\ fault = [t \in 1..ncourts |-> None]
    /\ theCall = [fn |-> "none"]
    /\ outcome = None

\* ------------------------------------------------------------ result dicts
TennisOk(t, a) == [court |-> t, availability |-> a, success |-> TRUE]

TennisErr(t, msg) == [court |-> t, error |-> msg, success |-> FALSE]

DistEntry(t, info, err) ==
    [court_name |-> t, distance_info |-> info, error |-> err]

DistanceInfo(minutes) == [duration_seconds |-> minutes * SecondsPerMinute]

\* check_single_court: "if availability:" decides between the two dicts.
\* extract_availability_info returns a non-empty dict, which is truthy
\* whatever its available_times list holds.
SingleCourtResultEmptyFails(t, a) ==
    IF a # None /\ a[1].available_times > 0
    THEN TennisOk(t, a[1])
    ELSE TennisErr(t, "No availability data found")

SingleCourtResult(t, a) ==
    IF a # None
    THEN TennisOk(t, a[1])
    ELSE TennisErr(t, "No availability data found")

\* calculate_single_court_distance: the dict returned after
\* get_biking_time_from_maps
SingleDistanceResult(t, info) ==
    DistEntry(t, info,
              IF info # None THEN None ELSE Some("Could not get biking time"))

\* ----------------------------------------------------------- main thread
Running(t) == tpc[t] \notin {"new", "queued", "done"}

RunningSet == {t \in Courts : Running(t)}

\* "if not courts:" / "if not court_urls:" / "if not court_addresses:"
NoCourtsIgnored == FALSE

NoCourts == ncourts = 0

\* load_court_urls / get_court_urls, and the "if not courts: return"
LoadCourts ==
    /\ Parallel
    /\ mpc = "load"
    /\ IF NoCourts
       THEN /\ mpc' = "done"
            /\ batch' = IF prog = "tennis" THEN "returned" ELSE batch
       ELSE /\ mpc' = "pool"
            /\ batch' = batch
    /\ UNCHANGED <<inputs, poolSize, submitted, tpc, drv, sess, users, avail,
                   tres, completion, initial, yielded, results, wfile, disk,
                   report, writes, idx, fault>>

\* The max_workers the executor is built with
PoolSizeOfList == ncourts

PoolSize ==
    IF prog = "gmaps" THEN EffectiveWorkers(maxWorkers, ncourts)
    ELSE maxWorkers

\* with ThreadPoolExecutor(max_workers=max_workers) as executor:
CreatePool ==
    /\ mpc = "pool"
    /\ poolSize' = PoolSize
    /\ mpc' = "submit"
    /\ UNCHANGED <<inputs, submitted, tpc, drv, sess, users, avail, tres,
                   completion, initial, yielded, results, batch, wfile, disk,
                   report, writes, idx, fault>>

\* executor.submit(...) for the next court of the list
Submit ==
    /\ mpc = "submit"
    /\ submitted < ncourts
    /\ submitted' = submitted + 1
    /\ tpc' = [tpc EXCEPT ![submitted + 1] = "queued"]
    /\ UNCHANGED <<inputs, mpc, poolSize, drv, sess, users, avail, tres,
                   completion, initial, yielded, results, batch, wfile, disk,
                   report, writes, idx, fault>>

\* as_completed(future_to_court): the futures already finished are yielded
\* first, in the order of a set; the others in the order they finish.
AsCompletedStart ==
    /\ mpc = "submit"
    /\ submitted = ncourts
    /\ initial' = {t \in Courts : tpc[t] = "done"}
    /\ mpc' = "collect"
    /\ UNCHANGED <<inputs, poolSize, submitted, tpc, drv, sess, users, avail,
                   tres, completion, yielded, results, batch, wfile, disk,
                   report, writes, idx, fault>>

\* The futures as_completed may yield next
NextYieldAnyFinished == {t \in Courts : tpc[t] = "done"} \ yielded

NextYield ==
    IF initial \ yielded # {}
    THEN initial \ yielded
    ELSE LET later == SelectSeq(completion, LAMBDA t : t \notin yielded)
         IN  IF later = <<>> THEN {} ELSE {Head(later)}

\* The body of the "for future in as_completed(...)" loop:
\* result = future.result(); results.append(result)
AppendResultTwice(rs, r) == Append(Append(rs, r), r)

AppendResult(rs, r) == Append(rs, r)

Collect ==
    /\ mpc = "collect"
    /\ \E t \in NextYield :
          /\ yielded' = yielded \cup {t}
          /\ results' = AppendResult(results, tres[t][1])
    /\ UNCHANGED <<inputs, mpc, poolSize, submitted, tpc, drv, sess, users,
                   avail, tres, completion, initial, batch, wfile, disk,
                   report, writes, idx, fault>>

\* calculate_all_distances / check_all_courts_parallel return: as_completed
\* is exhausted and the with block has joined the workers
BatchReturnsEarly == submitted = ncourts

BatchReturns == yielded = Courts /\ \A t \in Courts : tpc[t] = "done"

BatchReturn ==
    /\ mpc = "collect"
    /\ BatchReturns
    /\ batch' = "returned"
    /\ mpc' = IF prog = "tennis" THEN "done" ELSE "returned"
    /\ UNCHANGED <<inputs, poolSize, submitted, tpc, drv, sess, users, avail,
                   tres, completion, initial, yielded, results, wfile, disk,
                   report, writes, idx, fault>>

\* ---------------------------------------------------------- pool workers
mainU == <<inputs, mpc, poolSize, submitted, initial, yielded, results,
           batch, report, writes, idx>>

Drv(t) == drv[WorkerInstance(t)]

\* A WebDriver command (or quit) issued by task t on session s
Use(s, t) == IF s = 0 THEN users ELSE [users EXCEPT ![s] = @ \cup {t}]

\* The work queue is first in, first out, and at most max_workers threads
\* take items from it.
Startable(t) ==
    /\ tpc[t] = "queued"
    /\ \A u \in Courts : u < t => tpc[u] # "queued"
    /\ Cardinality(RunningSet) < poolSize

\* setup_driver of the task's instance. The tennis checker always starts a
\* session; the maps calculator returns at once when its driver is set, and
\* returns False with the driver set when minimize_window raises ("minfail").
SetupOutcomes ==
    IF prog = "tennis" THEN {"ok", "fail"} ELSE {"ok", "fail", "minfail"}

InitFailed(t) ==
    IF prog = "tennis"
    THEN TennisErr(t, "Failed to initialize driver")
    ELSE DistEntry(t, None, Some("Failed to initialize driver"))

\* A pool thread takes the oldest queued work item: the function reads
\* court_data['name'] and court_data['url'], creates its own instance and
\* calls setup_driver on it.
Start(t) ==
    /\ Parallel
    /\ Startable(t)
    /\ IF prog = "gmaps" /\ Drv(t) # 0
       THEN /\ tpc' = [tpc EXCEPT ![t] = "link"]
            /\ UNCHANGED <<drv, sess, tres>>
       ELSE \E o \in SetupOutcomes :
              /\ drv' = IF o = "fail" THEN drv
                        ELSE [drv EXCEPT ![WorkerInstance(t)] = t]
              /\ sess' = IF o = "fail" THEN sess
                         ELSE [sess EXCEPT ![t] = "open"]
              /\ IF o = "ok"
                 THEN /\ tpc' = [tpc EXCEPT ![t] =
                                   IF prog = "tennis" THEN "check" ELSE "link"]
                      /\ tres' = tres
                 ELSE /\ tpc' = [tpc EXCEPT ![t] = "ret"]
                      /\ tres' = [tres EXCEPT ![t] = Some(InitFailed(t))]
    /\ UNCHANGED <<mainU, users, avail, completion, wfile, disk, fault>>

\* ------------------------------------------- tennis: check_single_court
OverflowMsg == "date value out of range"
NavFaultMsg == "navigation failed"
SnapFaultMsg == "page source unavailable"

Fault(msg, call) == Some([msg |-> msg, at |-> call])

\* check_single_court's "except Exception as e": 'error': str(e)
ExceptResultFixedText(t, msg) == TennisErr(t, "No availability data found")

ExceptResult(t, msg) == TennisErr(t, msg)

\* What extract_availability_info returns: None, or its dict, of which the
\* number of entries of available_times is kept (0, or 1 for "some")
Extractions ==
    {None} \cup {Some([available_times |-> k]) : k \in {0, 1}}

\* check_tennis_availability up to extract_availability_info. A date phrase
\* such as "999999999999 days" makes parse_date_input raise before the try
\* block; a fault of driver.get, the wait or the sleep is caught inside and
\* turns into "return None"; extract_availability_info returns its dict, or
\* None when it caught a fault itself.
Check(t) ==
    /\ prog = "tennis"
    /\ tpc[t] = "check"
    /\ IF dateInput = "overflow"
       THEN /\ fault' = [fault EXCEPT ![t] =
                               Fault(OverflowMsg, "parse_date_input")]
            /\ tres' = [tres EXCEPT ![t] = Some(ExceptResult(t, OverflowMsg))]
            /\ tpc' = [tpc EXCEPT ![t] = "ret"]
            /\ UNCHANGED <<users, avail>>
       ELSE /\ users' = Use(Drv(t), t)
            /\ \E nav \in BOOLEAN :
                 IF nav
                 THEN \E a \in Extractions :
                        /\ avail' = [avail EXCEPT ![t] = a]
                        /\ tpc' = [tpc EXCEPT ![t] = "snap"]
                        /\ UNCHANGED <<tres, fault>>
                 ELSE /\ fault' = [fault EXCEPT ![t] =
                                         Fault(NavFaultMsg, "get")]
                      /\ tres' = [tres EXCEPT ![t] =
                                    Some(SingleCourtResult(t, None))]
                      /\ tpc' = [tpc EXCEPT ![t] = "ret"]
                      /\ avail' = avail
    /\ UNCHANGED <<mainU, drv, sess, completion, wfile, disk>>

\* html_filename = f"{court_name...}_rendered.html"
SnapshotFile(t) == cname[t]

\* self.driver.close(): the session's only tab is closed, and with its last
\* window gone the remote end ends the session (any later command on it
\* raises).
TabClosed(t) == IF Drv(t) = 0 THEN sess ELSE [sess EXCEPT ![Drv(t)] = "torn"]

\* if not os.path.exists(html_filename): ... else: the file is left alone,
\* the tab is closed, availability_info is returned and check_single_court
\* builds its dict
SnapExists(t) ==
    /\ prog = "tennis"
    /\ tpc[t] = "snap"
    /\ IF SnapshotFile(t) \in disk
       THEN /\ users' = Use(Drv(t), t)
            /\ sess' = TabClosed(t)
            /\ tres' = [tres EXCEPT ![t] = Some(SingleCourtResult(t, avail[t]))]
            /\ tpc' = [tpc EXCEPT ![t] = "ret"]
       ELSE /\ tpc' = [tpc EXCEPT ![t] = "snapopen"]
            /\ UNCHANGED <<users, sess, tres>>
    /\ UNCHANGED <<mainU, drv, avail, completion, wfile, disk, fault>>

\* with open(html_filename, 'w', ...) as f:
SnapOpen(t) ==
    /\ prog = "tennis"
    /\ tpc[t] = "snapopen"
    /\ wfile' = [wfile EXCEPT ![t] = Some(SnapshotFile(t))]
    /\ disk' = disk \cup {SnapshotFile(t)}
    /\ tpc' = [tpc EXCEPT ![t] = "snapw"]
    /\ UNCHANGED <<mainU, drv, sess, users, avail, tres, completion, fault>>

\* f.write(self.driver.page_source) and the end of the with block, then the
\* tab is closed and availability_info returned; a fault of page_source is
\* caught by check_tennis_availability, which returns None with the tab open
SnapWrite(t) ==
    /\ prog = "tennis"
    /\ tpc[t] = "snapw"
    /\ wfile' = [wfile EXCEPT ![t] = None]
    /\ users' = Use(Drv(t), t)
    /\ tpc' = [tpc EXCEPT ![t] = "ret"]
    /\ \E ok \in BOOLEAN :
         IF ok
         THEN /\ sess' = TabClosed(t)
              /\ tres' = [tres EXCEPT ![t] =
                            Some(SingleCourtResult(t, avail[t]))]
              /\ fault' = fault
         ELSE /\ fault' = [fault EXCEPT ![t] =
                                 Fault(SnapFaultMsg, "page_source")]
              /\ tres' = [tres EXCEPT ![t] = Some(SingleCourtResult(t, None))]
              /\ sess' = sess
    /\ UNCHANGED <<mainU, drv, avail, completion, disk>>

\* ------------------------- gmaps: calculate_single_court_distance
\* get_google_maps_link (its own setup_driver call returns at once, the
\* driver being set; a fault is caught inside and gives None like a page
\* without a maps link), then get_biking_time_from_maps up to the search:
\* load the maps page, click Directions, fill the origin field, trigger the
\* search. Without a Directions button or an origin field, or on a fault,
\* it returns None.
ProbeOutcomes == {"nolink", "linkfault", "go", "none", "mapsfault"}

Probe(t) ==
    /\ prog = "gmaps"
    /\ tpc[t] = "link"
    /\ users' = Use(Drv(t), t)
    /\ \E o \in ProbeOutcomes :
         /\ fault' = IF o \in {"linkfault", "mapsfault"}
                     THEN [fault EXCEPT ![t] = Fault(NavFaultMsg, "get")]
                     ELSE fault
         /\ IF o = "go"
            THEN /\ tpc' = [tpc EXCEPT ![t] = "dbgopen"]
                 /\ tres' = tres
            ELSE /\ tpc' = [tpc EXCEPT ![t] = "ret"]
                 /\ tres' = [tres EXCEPT ![t] = Some(
                       IF o \in {"nolink", "linkfault"}
                       THEN DistEntry(t, None,
                                      Some("No Google Maps link found"))
                       ELSE SingleDistanceResult(t, None))]
    /\ UNCHANGED <<mainU, drv, sess, avail, completion, wfile, disk>>

\* page_source = self.driver.page_source
\* with open('debug_maps_page.html', 'w', ...) as f:
DebugOpen(t) ==
    /\ prog = "gmaps"
    /\ tpc[t] = "dbgopen"
    /\ users' = Use(Drv(t), t)
    /\ wfile' = [wfile EXCEPT ![t] = Some(DebugFile)]
    /\ disk' = disk \cup {DebugFile}
    /\ tpc' = [tpc EXCEPT ![t] = "dbgw"]
    /\ UNCHANGED <<mainU, drv, sess, avail, tres, completion, fault>>

DistanceInfos == {None} \cup {Some(DistanceInfo(m)) : m \in 1..MaxMinutes}

\* f.write(page_source) and the end of the with block, then the rest of
\* get_biking_time_from_maps (biking mode, scan for "N min") and the dict
\* calculate_single_court_distance returns
BikeScan(t) ==
    /\ prog = "gmaps"
    /\ tpc[t] = "dbgw"
    /\ wfile' = [wfile EXCEPT ![t] = None]
    /\ users' = Use(Drv(t), t)
    /\ \E info \in DistanceInfos :
         tres' = [tres EXCEPT ![t] = Some(SingleDistanceResult(t, info))]
    /\ tpc' = [tpc EXCEPT ![t] = "ret"]
    /\ UNCHANGED <<mainU, drv, sess, avail, completion, disk, fault>>

\* --------------------------------------------------- the finally clauses
\* driver.window_handles: the list of a live session (one tab); the command
\* raises (None here) on a session that has ended
WindowHandles(st) == IF st = "open" THEN Some(1) ELSE None

\* TennisAvailabilityChecker.close, given the session state: quit when a
\* window is left, nothing when the list is empty, and the forced quit of
\* the except branch when window_handles raised
closeNoForcedQuit(st) ==
    LET h == WindowHandles(st)
    IN  IF h # None /\ h[1] > 0 THEN "quit" ELSE st

close(st) ==
    LET h == WindowHandles(st)
    IN  IF h # None
        THEN IF h[1] > 0 THEN "quit" ELSE st
        ELSE "quit"

\* "finally: checker.close()" and
\* "finally: if calculator.driver: calculator.driver.quit()"
Release(t) ==
    /\ Parallel
    /\ tpc[t] = "ret"
    /\ IF Drv(t) = 0
       THEN UNCHANGED <<sess, users>>
       ELSE /\ sess' = [sess EXCEPT ![Drv(t)] =
                          IF prog = "tennis" THEN close(@) ELSE "quit"]
            /\ users' = Use(Drv(t), t)
    /\ tpc' = [tpc EXCEPT ![t] = "released"]
    /\ UNCHANGED <<mainU, drv, avail, tres, completion, wfile, disk, fault>>

\* The work item sets the future's result
Deliver(t) ==
    /\ Parallel
    /\ tpc[t] = "released"
    /\ tpc' = [tpc EXCEPT ![t] = "done"]
    /\ completion' = Append(completion, t)
    /\ UNCHANGED <<mainU, drv, sess, users, avail, tres, wfile, disk, fault>>

\* ------------------------ DistanceCalculator.calculate_all_distances
taskU == <<tpc, avail, tres, completion, initial, yielded, wfile, disk,
           poolSize, submitted>>

\* main: load_court_addresses and "if not court_addresses: return"
DistLoad ==
    /\ prog = "dist"
    /\ mpc = "load"
    /\ IF NoCourts
       THEN mpc' = "done" /\ idx' = idx
       ELSE mpc' = "loop" /\ idx' = 1
    /\ UNCHANGED <<inputs, taskU, drv, sess, users, results, batch, report,
                   writes, fault>>

\* Top of the loop body: court['name'], court.get('address') and the
\* "No address available" entry
DistRead ==
    /\ prog = "dist"
    /\ mpc = "loop"
    /\ idx <= ncourts
    /\ IF rec[idx] = "noname"
       THEN /\ mpc' = "unwind"
            /\ fault' = [fault EXCEPT ![idx] = Fault("'name'", "record")]
            /\ UNCHANGED <<idx, results>>
       ELSE IF rec[idx] = "noaddr"
       THEN /\ results' = Append(results, DistEntry(idx, None,
                                            Some("No address available")))
            /\ idx' = idx + 1
            /\ UNCHANGED <<mpc, fault>>
       ELSE /\ mpc' = "calc"
            /\ UNCHANGED <<idx, results, fault>>
    /\ UNCHANGED <<inputs, taskU, drv, sess, users, batch, report, writes>>

\* calculate_distance (every fault inside it is caught and gives None) and
\* the results.append({... court['url'] ...}) that follows
DistCalc ==
    /\ prog = "dist"
    /\ mpc = "calc"
    /\ \E o \in IF drv[0] # 0 THEN {"have"} ELSE {"ok", "fail", "minfail"} :
         /\ drv' = IF o \in {"ok", "minfail"}
                   THEN [drv EXCEPT ![0] = idx] ELSE drv
         /\ sess' = IF o \in {"ok", "minfail"}
                    THEN [sess EXCEPT ![idx] = "open"] ELSE sess
         /\ users' = IF o \in {"ok", "have"}
                     THEN Use(drv'[0], idx) ELSE users
         /\ \E info \in IF o \in {"ok", "have"}
                         THEN DistanceInfos ELSE {None} :
              IF rec[idx] = "nourl"
              THEN /\ mpc' = "unwind"
                   /\ fault' = [fault EXCEPT ![idx] =
                                      Fault("'url'", "record")]
                   /\ UNCHANGED <<idx, results>>
              ELSE /\ results' = Append(results, DistEntry(idx, info,
                          IF info # None THEN None
                          ELSE Some("Distance calculation failed")))
                   /\ idx' = idx + 1
                   /\ mpc' = "loop"
                   /\ fault' = fault
    /\ UNCHANGED <<inputs, taskU, batch, report, writes>>

\* The finally clause of calculate_all_distances, then its return or the
\* exception reaching main's "except Exception"
DistFinally ==
    /\ prog = "dist"
    /\ mpc \in {"loop", "unwind"}
    /\ mpc = "loop" => idx > ncourts
    /\ IF drv[0] # 0
       THEN /\ sess' = [sess EXCEPT ![drv[0]] = "quit"]
            /\ users' = Use(drv[0], 0)
       ELSE UNCHANGED <<sess, users>>
    /\ batch' = IF mpc = "loop" THEN "returned" ELSE "raised"
    /\ mpc' = IF mpc = "loop" THEN "returned" ELSE "done"
    /\ UNCHANGED <<inputs, taskU, drv, results, report, writes, idx, fault>>

\* ------------------------------------------------------- save_distances
RECURSIVE SortByDuration(_)

\* r goes after every entry whose key is not greater: a stable sort
InsertByDuration(r, sorted) ==
    LET key(x) == x.distance_info[1].duration_seconds
        before == SelectSeq(sorted, LAMBDA x : key(x) <= key(r))
        after == SelectSeq(sorted, LAMBDA x : key(x) > key(r))
    IN  before \o <<r>> \o after

\* successful_results.sort(key=lambda x: x['distance_info']['duration_seconds'])
SortByDurationNone(rs) == rs

SortByDuration(rs) ==
    IF rs = <<>> THEN <<>>
    ELSE InsertByDuration(rs[Len(rs)],
                          SortByDuration(SubSeq(rs, 1, Len(rs) - 1)))

save_distances_one_filter(rs) ==
    [total_courts |-> Len(rs),
     courts_by_distance |->
         SortByDuration(SelectSeq(rs, LAMBDA r : r.distance_info # None)),
     failed_courts |-> SelectSeq(rs, LAMBDA r : r.distance_info # None)]

save_distances(rs) ==
    [total_courts |-> Len(rs),
     courts_by_distance |->
         SortByDuration(SelectSeq(rs, LAMBDA r : r.distance_info # None)),
     failed_courts |-> SelectSeq(rs, LAMBDA r : r.distance_info = None)]

\* main calls save_distances once calculate_all_distances has returned:
\* open(self.court_distances_file, 'w')
SaveBegin ==
    /\ prog \in {"gmaps", "dist"}
    /\ mpc = "returned"
    /\ writes' = writes + 1
    /\ mpc' = "saving"
    /\ UNCHANGED <<inputs, taskU, drv, sess, users, results, batch, report,
                   idx, fault>>

\* json.dump(distance_data, f, ...) and the end of the with block
SaveEnd ==
    /\ mpc = "saving"
    /\ report' = Some(save_distances(results))
    /\ mpc' = "done"
    /\ UNCHANGED <<inputs, taskU, drv, sess, users, results, batch, writes,
                   idx, fault>>

\* ------------------------------------------------------------ the system
Next ==
    \/ LoadCourts
    \/ CreatePool
    \/ Submit
    \/ AsCompletedStart
    \/ Collect
    \/ BatchReturn
    \/ \E t \in Courts : Start(t)
    \/ \E t \in Courts : Check(t)
    \/ \E t \in Courts : SnapExists(t)
    \/ \E t \in Courts : SnapOpen(t)
    \/ \E t \in Courts : SnapWrite(t)
    \/ \E t \in Courts : Probe(t)
    \/ \E t \in Courts : DebugOpen(t)
    \/ \E t \in Courts : BikeScan(t)
    \/ \E t \in Courts : Release(t)
    \/ \E t \in Courts : Deliver(t)
    \/ DistLoad
    \/ DistRead
    \/ DistCalc
    \/ DistFinally
    \/ SaveBegin
    \/ SaveEnd

Spec == Init /\ [][Next]_vars

\* ============================================== single method calls
\* The state of a batch that has not been started
Idle ==
    /\ prog = "tennis"
    /\ listing = "present"
    /\ ncourts = 0
    /\ rec = <<>>
    /\ cname = <<>>
    /\ dateInput = "none"
    /\ passed = FALSE
    /\ maxWorkers = TennisDefaultWorkers
    /\ mpc = "load"
    /\ poolSize = 0
    /\ submitted = 0
    /\ tpc = <<>>
    /\ drv = [i \in {0} |-> 0]
    /\ sess = <<>>
    /\ users = <<>>
    /\ avail = <<>>
    /\ tres = <<>>
    /\ completion = <<>>
    /\ initial = {}
    /\ yielded = {}
    /\ results = <<>>
    /\ batch = "none"
    /\ wfile = <<>>
    /\ disk = {}
    /\ report = None
    /\ writes = 0
    /\ idx = 0
    /\ fault = <<>>

batchVars == <<prog, listing, ncourts, rec, cname, dateInput, passed,
               maxWorkers, mpc, poolSize,
               submitted, tpc, drv, sess, users, avail, tres, completion,
               initial, yielded, results, batch, wfile, disk, report, writes,
               idx, fault>>

\* How a call ends: it returns a value or raises an exception
Return(v) == [kind |-> "return", value |-> v]

Raise(e) == [kind |-> "raise", value |-> e]

\* try: ... except TimeoutException: return None
\*          except Exception as e: return None
Catch(o) == IF o.kind = "raise" THEN Return(None) ELSE o

\* ------------------------------------------------------------------ texts
\* A text is a sequence of tokens: a run of digits (its value) or a
\* lower-case word.
Num(n) == [w |-> "#", n |-> n]

Word(w) == [w |-> w, n |-> 0]

IsNum(k) == k.w = "#"

\* The words that contain the substring sub / that start with it
Containing(sub) ==
    CASE sub = "mi" -> {"mi", "min", "mins", "mile", "miles", "minute", "minimum"}
      [] sub = "mile" -> {"mile", "miles"}
      [] sub = "km" -> {"km"}
      [] sub = "min" -> {"min", "mins", "minute", "minimum"}
      [] sub = "hour" -> {"hour", "hours"}
      [] sub = "hr" -> {"hr", "hrs"}

\* sub in text
In(sub, text) == \E i \in 1..Len(text) : text[i].w \in Containing(sub)

MinOf(S) == CHOOSE i \in S : \A j \in S : i <= j

\* re.search(r'(\d+)', text): the first run of digits
FirstNumber(text) ==
    LET I == {i \in 1..Len(text) : IsNum(text[i])}
    IN  IF I = {} THEN None ELSE Some(text[MinOf(I)].n)

\* re.search(r'(\d+)\s*<unit>', text): the first run of digits that a word
\* starting with unit follows
NumberBefore(text, unit) ==
    LET I == {i \in 1..Len(text) - 1 :
                 IsNum(text[i]) /\ text[i + 1].w \in Containing(unit)}
    IN  IF I = {} THEN None ELSE Some(text[MinOf(I)].n)

\* The first of the elements' texts that is not empty and passes the test;
\* passes[i] tells whether the text of element i does
FirstText(els, passes) ==
    LET I == {i \in 1..Len(els) : els[i] # <<>> /\ passes[i]}
    IN  IF I = {} THEN None ELSE Some(els[MinOf(I)])

\* ------------------------------- DistanceCalculator.parse_duration_to_seconds
\* The text is lower-cased and stripped first; the texts here are lower-case.
parse_duration_to_seconds(text) ==
    LET first == FirstNumber(text)
        hour_match == NumberBefore(text, "hour")
        min_match == NumberBefore(text, "min")
    IN  IF In("min", text) /\ first # None
        THEN first[1] * SecondsPerMinute
        ELSE IF (In("hour", text) \/ In("hr", text)) /\ first # None
        THEN first[1] * SecondsPerHour
        ELSE IF hour_match # None /\ min_match # None
        THEN hour_match[1] * SecondsPerHour + min_match[1] * SecondsPerMinute
        ELSE 0

\* Duration texts: "N min", "N hours", "H hour M min", ...
DurationNumbers == {1, 2, 30, 45}

DurationTexts ==
    {<<>>, <<Word("min")>>}
    \cup {<<Num(n), Word(u)>> :
             n \in DurationNumbers, u \in {"min", "mins", "hour", "hours", "hr"}}
    \cup {<<Num(h), Word(u), Num(m), Word("min")>> :
             h \in {1, 2}, u \in {"hour", "hours"}, m \in DurationNumbers}

\* --------------------------------------------------------- the estimators
\* Texts of the elements a locator finds
ElemTexts ==
    {<<>>, <<Num(2), Word("mi")>>, <<Num(24), Word("min")>>,
     <<Num(1), Word("hour"), Num(30), Word("min")>>, <<Word("minimum")>>}

RECURSIVE SeqsUpTo(_, _)

SeqsUpTo(S, n) ==
    IF n = 0 THEN {<<>>}
    ELSE LET shorter == SeqsUpTo(S, n - 1)
         IN  shorter \cup {Append(q, x) : q \in shorter, x \in S}

ElemLists == SeqsUpTo(ElemTexts, MaxElems)

\* What the page shows to calculate_distance: how far the call gets
\* (setup_driver fails, driver.get raises, the wait for the directions
\* panel times out or raises, or the panel is there), the texts of the
\* elements the distance and the duration locators find, in locator order
\* (a locator that raises counts as finding nothing), and what the patterns
\* find in the page source.
DirectPages ==
    {[stage |-> st, distEls |-> <<>>, durEls |-> <<>>, srcDist |-> None,
      srcDur |-> None] : st \in {"setupfail", "getfault", "timeout",
                                 "panelfault"}}
    \cup [stage : {"panel"}, distEls : ElemLists, durEls : ElemLists,
          srcDist : {None, Some(<<Num(3), Word("km")>>)},
          srcDur : {None, Some(<<Num(2), Word("hr")>>)}]

IsDistanceText(text) == In("mi", text) \/ In("km", text) \/ In("mile", text)

IsDurationText(text) == In("min", text) \/ In("hour", text)

\* "if not distance_text or not duration_text: return None"
MissingBoth(d, t) == d = None /\ t = None

Missing(d, t) == d = None \/ t = None

\* The inner try block of calculate_distance
DirectionsPanel(p) ==
    IF p.stage = "timeout" THEN Raise("TimeoutException")
    ELSE IF p.stage = "panelfault" THEN Raise("WebDriverException")
    ELSE LET found_d == FirstText(p.distEls, [i \in 1..Len(p.distEls) |-> IsDistanceText(p.distEls[i])])
             found_t == FirstText(p.durEls, [i \in 1..Len(p.durEls) |-> IsDurationText(p.durEls[i])])
             distance_text == IF found_d = None THEN p.srcDist ELSE found_d
             duration_text == IF found_t = None THEN p.srcDur ELSE found_t
         IN  IF Missing(distance_text, duration_text)
             THEN Return(None)
             ELSE Return(Some(
                    [distance_text |-> distance_text,
                     duration_text |-> duration_text,
                     duration_seconds |->
                        \* (the method returns 0 when it raises inside)
                        IF duration_text = None THEN 0
                        ELSE parse_duration_to_seconds(duration_text[1])]))

calculate_distance(p) ==
    Catch(IF p.stage = "setupfail" THEN Return(None)
          ELSE IF p.stage = "getfault" THEN Raise("WebDriverException")
          ELSE Catch(DirectionsPanel(p)))

\* What the page shows to get_biking_time_from_maps: how far the call gets
\* (driver.get raises, no Directions button, no origin field, typing into
\* the field raises, or the search is done), whether a search button and a
\* biking-mode control were found and clicked, and the texts of the
\* elements the time locators find, in locator order.
BikingPages ==
    {[stage |-> st, button |-> FALSE, bike |-> FALSE, timeEls |-> <<>>] :
        st \in {"getfault", "nodirections", "noorigin", "typefault"}}
    \cup [stage : {"search"}, button : BOOLEAN, bike : BOOLEAN,
          timeEls : ElemLists]

\* The steps of get_biking_time_from_maps that act on the page, in the
\* order they run: the search is triggered by the button or else by a
\* newline typed into the origin field, and a missing biking-mode control
\* is only reported before the scan
BikingSteps(p) ==
    IF p.stage \in {"getfault", "nodirections"} THEN <<>>
    ELSE IF p.stage \in {"noorigin", "typefault"} THEN <<"directions">>
    ELSE <<"directions", "origin">>
         \o (IF p.button THEN <<"search button">> ELSE <<"newline">>)
         \o (IF p.bike THEN <<"biking mode">> ELSE <<>>)
         \o <<"scan">>

\* "if 'min' in text:" and re.search(r'(\d+)\s*min', text)
HasMinutes(text) == In("min", text) /\ NumberBefore(text, "min") # None

BikingTime(p) ==
    IF p.stage \in {"getfault", "typefault"} THEN Raise("WebDriverException")
    ELSE IF p.stage \in {"nodirections", "noorigin"} THEN Return(None)
    ELSE LET text == FirstText(p.timeEls, [i \in 1..Len(p.timeEls) |-> HasMinutes(p.timeEls[i])])
         IN  IF text = None THEN Return(None)
             ELSE Return(Some(DistanceInfo(NumberBefore(text[1], "min")[1])))

get_biking_time_from_maps(p) == Catch(BikingTime(p))

\* ---------------------------- TennisAvailabilityChecker.parse_date_input
\* A datetime is the ordinal of its day (day 1 is 0001-01-01, a Monday, as
\* in date.toordinal) and its time of day: 0 is midnight, 1 any later time.
IsLeap(y) == y % 4 = 0 /\ (y % 100 # 0 \/ y % 400 = 0)

DaysInMonth(y, m) ==
    IF m \in {1, 3, 5, 7, 8, 10, 12} THEN 31
    ELSE IF m \in {4, 6, 9, 11} THEN 30
    ELSE IF IsLeap(y) THEN 29 ELSE 28

DaysBeforeYear(y) ==
    LET z == y - 1 IN z * 365 + z \div 4 - z \div 100 + z \div 400

RECURSIVE DaysBeforeMonth(_, _)

DaysBeforeMonth(y, m) ==
    IF m = 1 THEN 0 ELSE DaysBeforeMonth(y, m - 1) + DaysInMonth(y, m - 1)

toordinal(y, m, d) == DaysBeforeYear(y) + DaysBeforeMonth(y, m) + d

\* datetime(year, month, day): midnight of that day, or ValueError
datetime(y, m, d) ==
    IF y \in 1..9999 /\ m \in 1..12 /\ d \in 1..DaysInMonth(y, m)
    THEN Return([ord |-> toordinal(y, m, d), tod |-> 0])
    ELSE Raise("ValueError")

weekday(dt) == (dt.ord + 6) % 7

\* dt + timedelta(days=n)
PlusDays(dt, n) == [ord |-> dt.ord + n, tod |-> dt.tod]

\* a < b on datetimes
Before(a, b) == a.ord < b.ord \/ (a.ord = b.ord /\ a.tod < b.tod)

days_of_week ==
    [n \in {"monday", "mon", "m"} |-> 0]
    @@ [n \in {"tuesday", "tue", "tues", "t"} |-> 1]
    @@ [n \in {"wednesday", "wed", "w"} |-> 2]
    @@ [n \in {"thursday", "thu", "thurs", "th"} |-> 3]
    @@ [n \in {"friday", "fri", "f"} |-> 4]
    @@ [n \in {"saturday", "sat", "s"} |-> 5]
    @@ [n \in {"sunday", "sun", "su"} |-> 6]

month_patterns ==
    [n \in {"jan", "january"} |-> 1] @@ [n \in {"feb", "february"} |-> 2]
    @@ [n \in {"mar", "march"} |-> 3] @@ [n \in {"apr", "april"} |-> 4]
    @@ [n \in {"may"} |-> 5] @@ [n \in {"jun", "june"} |-> 6]
    @@ [n \in {"jul", "july"} |-> 7] @@ [n \in {"aug", "august"} |-> 8]
    @@ [n \in {"sep", "september"} |-> 9] @@ [n \in {"oct", "october"} |-> 10]
    @@ [n \in {"nov", "november"} |-> 11] @@ [n \in {"dec", "december"} |-> 12]

\* "if days_ahead <= 0: days_ahead += 7" of the "next <day>" branch
NextDaysAhead(days_ahead) ==
    IF days_ahead <= 0 THEN days_ahead + 7 ELSE days_ahead

\* "if days_ahead < 0: days_ahead += 7" of the bare day name branch
DaysAheadNoRoll(days_ahead) == days_ahead

DaysAhead(days_ahead) ==
    IF days_ahead < 0 THEN days_ahead + 7 ELSE days_ahead

\* target_date = datetime(year, month, day)
\* if target_date < today: target_date = datetime(year + 1, month, day)
ThisOrNextYear(year, month, day, today) ==
    LET target_date == datetime(year, month, day)
    IN  IF target_date.kind = "raise" THEN target_date
        ELSE IF Before(target_date.value, today)
        THEN datetime(year + 1, month, day)
        ELSE target_date

\* "year += 2000 if year < 50 else 1900" for a year below 100
FullYear(year) ==
    IF year < 100 THEN (IF year < 50 THEN year + 2000 ELSE year + 1900)
    ELSE year

\* numeric_patterns, as the numbers of groups of the patterns in list order
numeric_patterns == <<2, 3>>

\* One pattern tried on the numeric fields of the phrase. re.search finds
\* the two-group pattern in every text with two fields or more and the
\* three-group pattern in a text with three. None when it does not match.
TryPattern(groups, fields, year, today) ==
    IF Len(fields) < groups THEN None
    ELSE IF groups = 2
    THEN Some(ThisOrNextYear(year, fields[1], fields[2], today))
    ELSE Some(datetime(FullYear(fields[3]), fields[1], fields[2]))

\* The loop over numeric_patterns: the first pattern that matches and does
\* not end in ValueError gives the result
RECURSIVE NumericLoop(_, _, _, _)

NumericLoop(i, fields, year, today) ==
    IF i > Len(numeric_patterns) THEN None
    ELSE LET r == TryPattern(numeric_patterns[i], fields, year, today)
         IN  IF r # None /\ r[1].kind = "return" THEN Some(r[1].value)
             ELSE NumericLoop(i + 1, fields, year, today)

\* A phrase, lower-cased and stripped, by its form:
\*   [form "word", w]                a single word that is no day name
\*   [form "next", day]              "next <day>"
\*   [form "day", day]               a day name alone
\*   [form "month", month, day]      "<month name> <day number>"
\*   [form "numeric", fields]        numbers joined by / - or .
\*   [form "days", n]                "<n> days", "in <n> days", ...
\* ref is the clock's reading: year, month, day and time of day.
ParsedDate(p, ref) ==
    LET today == [ord |-> toordinal(ref.y, ref.m, ref.d), tod |-> ref.tod]
    IN  IF p.form = "word" /\ p.w = ""
        THEN None
        ELSE IF p.form = "word" /\ p.w \in {"tomorrow", "tom"}
        THEN Some(PlusDays(today, 1))
        ELSE IF p.form = "word" /\ p.w \in {"today", "now"}
        THEN Some(today)
        ELSE IF p.form = "next" /\ p.day \in DOMAIN days_of_week
        THEN Some(PlusDays(today,
                 NextDaysAhead(days_of_week[p.day] - weekday(today))))
        ELSE IF p.form = "day" /\ p.day \in DOMAIN days_of_week
        THEN Some(PlusDays(today,
                 DaysAhead(days_of_week[p.day] - weekday(today))))
        ELSE IF p.form = "month" /\ p.month \in DOMAIN month_patterns
        THEN \* a ValueError goes on to the other month names, which give
             \* the same, and the later patterns find nothing in the phrase
             LET r == ThisOrNextYear(ref.y, month_patterns[p.month], p.day,
                                     today)
             IN  IF r.kind = "return" THEN Some(r.value) ELSE None
        ELSE IF p.form = "numeric"
        THEN NumericLoop(1, p.fields, ref.y, today)
        ELSE IF p.form = "days"
        THEN Some(PlusDays(today, p.n))
        ELSE None

\* The ordinal of 9999-12-31, the last day a datetime can hold
MaxOrdinal == 3652059

\* today + timedelta(days=days) raises OverflowError beyond that day; no
\* other step of the method raises
parse_date_input(p, ref) ==
    IF p.form = "days" /\ toordinal(ref.y, ref.m, ref.d) + p.n > MaxOrdinal
    THEN Raise(OverflowMsg)
    ELSE Return(ParsedDate(p, ref))

\* Clock readings and phrases
RefYears == {2024, 2025}

Refs ==
    [y : RefYears, m : 1..MaxRefMonth, d : 1..MaxRefDay, tod : {0, 1}]

PhraseDays == {1, 10, 15, 29, 31}

Phrases ==
    {[form |-> "word", w |-> w] : w \in {"", "tomorrow", "tom", "today", "now",
                                         "soon"}}
    \cup {[form |-> "next", day |-> n] : n \in DOMAIN days_of_week}
    \cup {[form |-> "day", day |-> n] : n \in DOMAIN days_of_week}
    \cup {[form |-> "month", month |-> n, day |-> d] :
             n \in {"jan", "feb", "march", "dec"}, d \in PhraseDays}
    \cup {[form |-> "numeric", fields |-> <<m, d>>] :
             m \in {1, 2, 3, 12, 13}, d \in PhraseDays}
    \cup {[form |-> "numeric", fields |-> <<m, d, y>>] :
             m \in {1, 2, 3, 12, 13}, d \in PhraseDays,
             y \in {24, 50, 2024, 2030}}
    \cup {[form |-> "days", n |-> n] : n \in (0..MaxDaysAhead) \cup {4000000}}

\* ------------- TennisAvailabilityChecker.find_duration_for_time_element
\* "if 30 <= int(num) <= 180:"
InRangeNoLow(n) == n <= 180

InRange(n) == 30 <= n /\ n <= 180

\* numbers = re.findall(r'\b(\d+)\b', text) and the loop over them: the
\* first number of the text that is in range
FirstInRange(text) ==
    LET I == {i \in 1..Len(text) : IsNum(text[i]) /\ InRange(text[i].n)}
    IN  IF I = {} THEN None ELSE Some(text[MinOf(I)].n)

\* The first of the texts, in list order, that holds a number in range
\* gives it
FirstOfTexts(texts) ==
    LET I == {i \in 1..Len(texts) : FirstInRange(texts[i]) # None}
    IN  IF I = {} THEN None ELSE FirstInRange(texts[MinOf(I)])

RECURSIVE Digits(_)

Digits(n) == IF n < 10 THEN 1 ELSE 1 + Digits(n \div 10)

RECURSIVE CharLen(_)

\* len(text) of a stripped text whose tokens single spaces separate
CharLen(text) ==
    IF text = <<>> THEN 0
    ELSE LET k == text[Len(text)]
             rest == SubSeq(text, 1, Len(text) - 1)
         IN  (IF IsNum(k) THEN Digits(k.n) ELSE Len(k.w))
             + (IF rest = <<>> THEN 0 ELSE 1 + CharLen(rest))

\* "if sibling_text and len(sibling_text) < 10:"
IsShort(text) == text # <<>> /\ CharLen(text) < 10

\* e: the texts of the time element, of its parent, of its siblings and of
\* its descendants with a duration-like class, in document order
find_duration_for_time_element(e) ==
    LET own == FirstInRange(e.text)
        parent == FirstInRange(e.parent)
        sibling == FirstOfTexts(SelectSeq(e.siblings, IsShort))
        below == FirstOfTexts(e.below)
    IN  IF own # None THEN own
        ELSE IF parent # None THEN parent
        ELSE IF sibling # None THEN sibling
        ELSE below

DurationTokens ==
    {Num(10), Num(29), Num(30), Num(60), Num(180), Num(181), Num(500),
     Word("am")}

NearTexts ==
    {<<>>, <<Num(500)>>, <<Num(90), Word("min")>>,
     <<Num(45), Word("minute"), Word("slot")>>}

TimeElements ==
    [text : SeqsUpTo(DurationTokens, MaxTokens)
               \cup {<<Num(10), Num(0), Word("am"), Num(60)>>,
                     <<Num(45), Word("minute"), Word("slot")>>},
     parent : NearTexts,
     siblings : {<<>>} \cup {<<a>> : a \in NearTexts}
                   \cup {<<a, b>> : a \in NearTexts, b \in NearTexts},
     below : {<<>>} \cup {<<a>> : a \in NearTexts}]


\* ------------------- TennisAvailabilityChecker.extract_availability_info
\* Stripped texts of the elements the locator
\* "//*[contains(text(), 'available') or contains(text(), 'reservation')]"
\* finds, and what the two "in text.lower()" tests find in each
AvailabilityTexts ==
    {"", "No free spots available", "3 courts available",
     "reservation required"}

HasNoFreeSpots(text) == text = "No free spots available"

HasAvailable(text) ==
    text \in {"No free spots available", "3 courts available"}

RECURSIVE has_availability(_)

\* The loop over availability_elements: the flag starts False and every
\* text that is not empty may assign it
has_availability(els) ==
    IF els = <<>> THEN FALSE
    ELSE LET flag == has_availability(SubSeq(els, 1, Len(els) - 1))
             text == els[Len(els)]
         IN  IF text = "" THEN flag
             ELSE IF HasNoFreeSpots(text) THEN FALSE
             ELSE IF HasAvailable(text) /\ ~HasNoFreeSpots(text) THEN TRUE
             ELSE flag

\* What the page shows to extract_availability_info: page_source raises,
\* the locator raises, or it finds elements with these texts in document
\* order
AvailabilityPages ==
    {[stage |-> st, els |-> <<>>] : st \in {"sourcefault", "locatorfault"}}
    \cup [stage : {"found"}, els : SeqsUpTo(AvailabilityTexts, MaxElems)]

\* A fault of page_source reaches the outer except (return None); a fault
\* of the locator the inner one, which leaves the dict as it is
extract_availability_info(p) ==
    IF p.stage = "sourcefault" THEN Return(None)
    ELSE Return(Some([has_availability |->
                         IF p.stage = "locatorfault" THEN FALSE
                         ELSE has_availability(p.els)]))



\* ------------------------ TennisAvailabilityChecker.click_specific_date
\* The text of a calendar element is the decimal form of a number below
\* 100. "day_number in text": the digits of d are a substring of the
\* digits of n
DayIn(d, n) ==
    \/ d = n
    \/ d < 10 /\ n >= 10 /\ (n \div 10 = d \/ n % 10 = d)

\* "if day_number in text and len(text) <= 2:"
IsTargetDay(d, n) == DayIn(d, n) /\ Digits(n) <= 2

\* "if '20' in text or 'Mon' in text:" for a text that is a number
IsNextAvailable(n) == DayIn(20, n)

\* The date element that is clicked once the picker is open: the first
\* element, in the order the date locators find them, that is displayed and
\* enabled and whose text passes the test. day is the optional day of the
\* month of target_date.
ClickedDate(day, calendar) ==
    LET I == {i \in 1..Len(calendar) :
                 /\ calendar[i].shown
                 /\ IF day = None THEN IsNextAvailable(calendar[i].text)
                    ELSE IsTargetDay(day[1], calendar[i].text)}
    IN  IF I = {} THEN None ELSE Some(calendar[MinOf(I)].text)

\* What a date-picker locator meets: find_elements raises, it finds
\* nothing, it finds only elements that are not displayed or not enabled,
\* the click on the picker raises, or the click opens the calendar
Closed == {"raises", "none", "hidden", "clickfault"}

\* click_specific_date: the picker locators are tried in order until one
\* opens the calendar; the method returns True once the calendar was
\* opened, whether or not a date was clicked, and False otherwise
click_specific_date(p) ==
    LET opened == \E i \in 1..Len(p.pickers) : p.pickers[i] = "opens"
    IN  [returned |-> opened,
         clicked |-> IF opened THEN ClickedDate(p.day, p.calendar) ELSE None]

CalendarElements == [text : {1, 2, 15, 20, 21}, shown : BOOLEAN]

TargetDays == {None, Some(1), Some(2), Some(15)}

\* Pages click_specific_date is called on: the picker locators that do not
\* open the calendar, the one that does (if any), and the elements of the
\* opened calendar
PickerPages ==
    [day : TargetDays, pickers : SeqsUpTo(Closed, MaxElems),
     calendar : {<<>>}]
    \cup [day : TargetDays,
          pickers : {Append(q, "opens") : q \in SeqsUpTo(Closed, MaxElems - 1)},
          calendar : SeqsUpTo(CalendarElements, MaxElems)]

\* ------------------ TennisAvailabilityChecker.check_tennis_availability
\* "except TimeoutException:" around wait.until: only another exception
\* leaves the try block of check_tennis_availability
WaitRaisesOnTimeout(w) == w # "ready"

WaitRaises(w) == w = "fault"

\* The steps of check_tennis_availability on a started driver, given what
\* driver.get does, how the readiness wait ends, what click_specific_date
\* and extract_availability_info meet and what becomes of the snapshot
\* (the file exists, it is written, or page_source raises): the steps that
\* were reached, in order, and the value returned
check_tennis_availability(p) ==
    IF p.get = "fault" THEN [steps |-> <<"get">>, value |-> None]
    ELSE IF WaitRaises(p.wait)
    THEN [steps |-> <<"get", "wait">>, value |-> None]
    ELSE LET date == click_specific_date(p.picker)
             info == extract_availability_info(p.page).value
             upto == <<"get", "wait", "click_specific_date",
                       "extract_availability_info", "snapshot">>
         IN  IF p.snapshot = "fault"
             THEN [steps |-> upto, value |-> None]
             ELSE [steps |-> Append(upto, "close"), value |-> info]

\* Probes check_tennis_availability is called on
Probes ==
    [get : {"ok", "fault"}, wait : {"ready", "timeout", "fault"},
     picker : [day : {None, Some(1)},
               pickers : {<<>>, <<"raises">>, <<"none", "hidden">>,
                          <<"clickfault">>},
               calendar : {<<>>}]
              \cup [day : {None, Some(1)}, pickers : {<<"none", "opens">>},
                    calendar : {<<>>, <<[text |-> 2, shown |-> TRUE]>>,
                                <<[text |-> 1, shown |-> TRUE]>>}],
     page : {[stage |-> "sourcefault", els |-> <<>>],
             [stage |-> "locatorfault", els |-> <<>>],
             [stage |-> "found", els |-> <<"3 courts available">>]},
     snapshot : {"exists", "written", "fault"}]

\* ------------------------------------------------------ setup_distances
\* A run of setup_distances.py: whether selenium can be imported, the
\* address typed, how google_maps_distance_calculator.py ends when it is
\* run as a subprocess, and whether an earlier run left court_distances.json.
\* The calculator's main ends by "missing" (no such script), "crash" (an
\* exception nothing catches), "caught" (its "except Exception" prints the
\* error and main returns), "nocourts" ("if not court_urls: return") or
\* "saved" (save_distances wrote the file).
SetupRuns ==
    [selenium : BOOLEAN, address : {"", "1 Main St"},
     script : {"missing", "crash", "caught", "nocourts", "saved"},
     stale : BOOLEAN]

\* The subprocess's exit status: main() returns in every case but the
\* crash, and the module ends without sys.exit
ScriptExit(s) == IF s = "crash" THEN 1 ELSE 0

\* subprocess.run(cmd, check=True, ...): True unless the script is missing
\* or its exit status is not zero
run_script(s) == s # "missing" /\ ScriptExit(s) = 0

\* os.path.exists('court_distances.json') after the subprocess
DistancesFileExists(r) == r.stale \/ r.script = "saved"

\* main of setup_distances.py
setup_main(r) ==
    IF ~r.selenium THEN FALSE
    ELSE IF r.address = "" THEN FALSE
    ELSE IF ~run_script(r.script) THEN FALSE
    ELSE DistancesFileExists(r)

\* sys.exit(0 if success else 1)
ExitStatus(success) == IF success THEN 0 ELSE 1


\* ------------- GoogleMapsDistanceCalculator.calculate_all_distances
\* ThreadPoolExecutor(max_workers=w): "if max_workers <= 0: raise
\* ValueError"
ThreadPoolExecutor(w) ==
    IF w <= 0 THEN Raise("ValueError") ELSE Return(w)

\* calculate_all_distances called with a list of n courts and max_workers
\* = w: the pool is built with the scaled count, and every court submitted
\* gives one entry of the list that is returned
calculate_all_distances(n, w) ==
    LET executor == ThreadPoolExecutor(EffectiveWorkers(w, n))
    IN  IF executor.kind = "raise" THEN executor
        ELSE Return([workers |-> executor.value, results |-> n])

\* Lists and max_workers values the method is called with
BatchArgs ==
    [n : 0..MaxTargets, workers : (1..MaxTargets) \cup {DefaultMaxWorkers}]

\* ------------------------------------------------- the calls looked at
\* The call that is made: a method and its arguments
CallInputs ==
    \/ \E p \in DirectPages : theCall = [fn |-> "calculate_distance", page |-> p]
    \/ \E p \in BikingPages :
          theCall = [fn |-> "get_biking_time_from_maps", page |-> p]
    \/ \E t \in DurationTexts :
          theCall = [fn |-> "parse_duration_to_seconds", text |-> t]
    \/ \E e \in TimeElements :
          theCall = [fn |-> "find_duration_for_time_element", element |-> e]
    \/ \E p \in Phrases : \E r \in Refs :
          theCall = [fn |-> "parse_date_input", phrase |-> p, ref |-> r]
    \/ \E p \in AvailabilityPages :
          theCall = [fn |-> "extract_availability_info", page |-> p]
    \/ \E r \in SetupRuns : theCall = [fn |-> "setup_distances", run |-> r]
    \/ \E p \in PickerPages :
          theCall = [fn |-> "click_specific_date", page |-> p]
    \/ \E p \in Probes :
          theCall = [fn |-> "check_tennis_availability", probe |-> p]
    \/ \E a \in BatchArgs :
          theCall = [fn |-> "calculate_all_distances", args |-> a]

CallsInit ==
    /\ Idle
    /\ CallInputs
    /\ outcome = None

CallCalculateDistance ==
    /\ theCall.fn = "calculate_distance"
    /\ outcome = None
    /\ outcome' = Some(calculate_distance(theCall.page))
    /\ UNCHANGED <<batchVars, theCall>>

CallGetBikingTime ==
    /\ theCall.fn = "get_biking_time_from_maps"
    /\ outcome = None
    /\ outcome' = Some(get_biking_time_from_maps(theCall.page))
    /\ UNCHANGED <<batchVars, theCall>>

CallParseDateInput ==
    /\ theCall.fn = "parse_date_input"
    /\ outcome = None
    /\ outcome' = Some(parse_date_input(theCall.phrase, theCall.ref))
    /\ UNCHANGED <<batchVars, theCall>>

CallParseDuration ==
    /\ theCall.fn = "parse_duration_to_seconds"
    /\ outcome = None
    /\ outcome' = Some(Return(parse_duration_to_seconds(theCall.text)))
    /\ UNCHANGED <<batchVars, theCall>>

CallFindDuration ==
    /\ theCall.fn = "find_duration_for_time_element"
    /\ outcome = None
    /\ outcome' = Some(Return(find_duration_for_time_element(theCall.element)))
    /\ UNCHANGED <<batchVars, theCall>>

CallExtractAvailability ==
    /\ theCall.fn = "extract_availability_info"
    /\ outcome = None
    /\ outcome' = Some(extract_availability_info(theCall.page))
    /\ UNCHANGED <<batchVars, theCall>>

CallSetupDistances ==
    /\ theCall.fn = "setup_distances"
    /\ outcome = None
    /\ outcome' = Some(Return(ExitStatus(setup_main(theCall.run))))
    /\ UNCHANGED <<batchVars, theCall>>

CallClickSpecificDate ==
    /\ theCall.fn = "click_specific_date"
    /\ outcome = None
    /\ outcome' = Some(Return(click_specific_date(theCall.page)))
    /\ UNCHANGED <<batchVars, theCall>>

CallCheckTennisAvailability ==
    /\ theCall.fn = "check_tennis_availability"
    /\ outcome = None
    /\ outcome' = Some(Return(check_tennis_availability(theCall.probe)))
    /\ UNCHANGED <<batchVars, theCall>>

CallCalculateAllDistances ==
    /\ theCall.fn = "calculate_all_distances"
    /\ outcome = None
    /\ outcome' = Some(calculate_all_distances(theCall.args.n,
                                               theCall.args.workers))
    /\ UNCHANGED <<batchVars, theCall>>

CallsNext ==
    \/ CallCalculateDistance
    \/ CallGetBikingTime
    \/ CallParseDateInput
    \/ CallParseDuration
    \/ CallFindDuration
    \/ CallExtractAvailability
    \/ CallSetupDistances
    \/ CallClickSpecificDate
    \/ CallCheckTennisAvailability
    \/ CallCalculateAllDistances

Calls == CallsInit /\ [][CallsNext]_vars


\* ============================== method calls in sequence on one instance
\* One TennisAvailabilityChecker (the single-court path of main:
\* setup_driver, then calls of check_alice_marble / check_court_by_date /
\* check_tennis_availability, then close) or one DistanceCalculator (calls of
\* calculate_all_distances and calculate_distance). drv[0] is the driver
\* field of the instance, sess the sessions created so far, submitted the
\* number of method calls made, idx the courts left in the running batch,
\* and results the log of the commands sent to a session: the command, the
\* state of the session when it was sent and the number of the call.
reuseU == <<prog, listing, ncourts, rec, cname, dateInput, passed, maxWorkers,
            poolSize, tpc, users, avail, tres, completion, initial, yielded,
            batch, wfile, disk, report, writes, fault, theCall, outcome>>

ReuseInit ==
    /\ prog \in {"tennis", "dist"}
    /\ listing = "present"
    /\ ncourts = 0
    /\ rec = <<>>
    /\ cname = <<>>
    /\ dateInput = "none"
    /\ passed = FALSE
    /\ maxWorkers = DefaultOf(prog)
    /\ mpc = IF prog = "tennis" THEN "new" ELSE "idle"
    /\ poolSize = 0
    /\ submitted = 0
    /\ tpc = <<>>
    /\ drv = [i \in {0} |-> 0]
    /\ sess = <<>>
    /\ users = <<>>
    /\ avail = <<>>
    /\ tres = <<>>
    /\ completion = <<>>
    /\ initial = {}
    /\ yielded = {}
    /\ results = <<>>
    /\ batch = "none"
    /\ wfile = <<>>
    /\ disk = {}
    /\ report = None
    /\ writes = 0
    /\ idx = 0
    /\ fault = <<>>
    /\ theCall = [fn |-> "none"]
    /\ outcome = None

\* A command sent to the session the driver field refers to
Command(op) == [op |-> op, on |-> sess[drv[0]], call |-> submitted']

\* webdriver.Firefox(...): a new session, which the driver field refers to
NewSession == Len(sess) + 1

\* main: "if not checker.setup_driver(): return False" (then the finally
\* clause, where close() finds no driver)
ReuseSetup ==
    /\ prog = "tennis"
    /\ mpc = "new"
    /\ \E ok \in BOOLEAN :
         IF ok
         THEN /\ sess' = Append(sess, "open")
              /\ drv' = [drv EXCEPT ![0] = NewSession]
              /\ mpc' = "idle"
         ELSE /\ mpc' = "closed"
              /\ UNCHANGED <<sess, drv>>
    /\ UNCHANGED <<reuseU, results, submitted, idx>>

\* A call of check_tennis_availability (check_alice_marble and
\* check_court_by_date pass their arguments on to it): driver.get raises on
\* a session that has ended and the method returns None; otherwise the
\* probe runs, and only when nothing raises is the tab closed
ReuseCheck ==
    /\ prog = "tennis"
    /\ mpc = "idle"
    /\ submitted < MaxCalls
    /\ submitted' = submitted + 1
    /\ results' = Append(results, Command("get"))
    /\ IF sess[drv[0]] # "open"
       THEN sess' = sess
       ELSE \E o \in {"navfault", "snapfault", "ok"} :
              sess' = IF o = "ok" THEN TabClosed(0) ELSE sess
    /\ UNCHANGED <<reuseU, mpc, drv, idx>>

\* main's finally clause: checker.close()
ReuseClose ==
    /\ prog = "tennis"
    /\ mpc = "idle"
    /\ sess' = [sess EXCEPT ![drv[0]] = close(@)]
    /\ mpc' = "closed"
    /\ UNCHANGED <<reuseU, drv, results, submitted, idx>>

\* DistanceCalculator.calculate_distance: setup_driver returns True at once
\* when the driver field is set; otherwise it starts a session ("ok"), fails
\* ("fail"), or starts one and returns False because minimize_window raised
\* ("minfail"). driver.get follows when setup_driver returned True.
CalculateDistance ==
    IF drv[0] # 0
    THEN /\ results' = Append(results, Command("get"))
         /\ UNCHANGED <<sess, drv>>
    ELSE \E o \in {"ok", "fail", "minfail"} :
           /\ sess' = IF o = "fail" THEN sess ELSE Append(sess, "open")
           /\ drv' = IF o = "fail" THEN drv ELSE [drv EXCEPT ![0] = NewSession]
           /\ results' = IF o = "ok"
                         THEN Append(results,
                                     [op |-> "get", on |-> "open",
                                      call |-> submitted'])
                         ELSE results

\* A call of calculate_distance from outside a batch
LoneCalculateDistance ==
    /\ prog = "dist"
    /\ mpc = "idle"
    /\ submitted < MaxCalls
    /\ submitted' = submitted + 1
    /\ CalculateDistance
    /\ UNCHANGED <<reuseU, mpc, idx>>

\* A call of calculate_all_distances with a list of n courts
BatchStart ==
    /\ prog = "dist"
    /\ mpc = "idle"
    /\ submitted < MaxCalls
    /\ submitted' = submitted + 1
    /\ \E n \in 0..MaxTargets : idx' = n
    /\ mpc' = "batch"
    /\ UNCHANGED <<reuseU, drv, sess, results>>

\* One pass of the loop: a record without 'name' ends the loop with a
\* KeyError, one without an address gets its entry, any other is given to
\* calculate_distance
BatchCourt ==
    /\ prog = "dist"
    /\ mpc = "batch"
    /\ idx > 0
    /\ submitted' = submitted
    /\ \E shape \in {"noname", "noaddr", "ok"} :
         /\ idx' = IF shape = "noname" THEN 0 ELSE idx - 1
         /\ IF shape = "ok" THEN CalculateDistance
            ELSE UNCHANGED <<sess, drv, results>>
    /\ UNCHANGED <<reuseU, mpc>>

\* finally: if self.driver: try: self.driver.quit() except: pass
BatchFinally ==
    /\ prog = "dist"
    /\ mpc = "batch"
    /\ idx = 0
    /\ submitted' = submitted
    /\ IF drv[0] # 0
       THEN /\ results' = Append(results, Command("quit"))
            /\ sess' = [sess EXCEPT ![drv[0]] = "quit"]
       ELSE UNCHANGED <<results, sess>>
    /\ mpc' = "idle"
    /\ UNCHANGED <<reuseU, drv, idx>>

ReuseNext ==
    \/ ReuseSetup
    \/ ReuseCheck
    \/ ReuseClose
    \/ LoneCalculateDistance
    \/ BatchStart
    \/ BatchCourt
    \/ BatchFinally

Reuse == ReuseInit /\ [][ReuseNext]_vars

\* ================================================================ claims
CourtOf(r) == IF "court" \in DOMAIN r THEN r.court ELSE r.court_name

\* The error text of a result dict, None when it has none
ErrorOf(r) ==
    IF "success" \in DOMAIN r
    THEN IF "error" \in DOMAIN r THEN Some(r.error) ELSE None
    ELSE r.error

HasPayload(r) ==
    IF "success" \in DOMAIN r
    THEN "availability" \in DOMAIN r
    ELSE r.distance_info # None

\* A success payload or an error, never both and never neither; the tennis
\* dict's success flag agrees with it
OneOutcome(r) ==
    /\ HasPayload(r) # (ErrorOf(r) # None)
    /\ "success" \in DOMAIN r => r.success = HasPayload(r)

EntriesOf(t) == {i \in 1..Len(results) : CourtOf(results[i]) = t}

\* C1: when a parallel batch over N >= 1 courts has returned, the result
\* list holds exactly N entries, exactly one per submitted court, and each
\* entry is either a success payload or an error entry; the batch does not
\* end by raising.
C1_ExactlyOneResultPerTarget ==
    Parallel =>
        /\ batch # "raised"
        /\ (batch = "returned" /\ ncourts >= 1) =>
              /\ Len(results) = ncourts
              /\ \A t \in Courts : Cardinality(EntriesOf(t)) = 1
              /\ \A i \in 1..Len(results) : OneOutcome(results[i])

\* C1 witness: a returned batch of two courts run by two workers whose
\* list is in completion order (court 2 first) and holds a success and an
\* error entry
C1_Witness ==
    /\ Parallel
    /\ batch = "returned"
    /\ ncourts = 2
    /\ poolSize = 2
    /\ CourtOf(results[1]) = 2
    /\ HasPayload(results[1])
    /\ ~HasPayload(results[2])

\* C2: the persisted courts_by_distance holds exactly the results with a
\* distance_info, ordered by non-decreasing duration_seconds, whatever the
\* order of the result list.
C2_SortedByDuration ==
    report # None =>
        LET cbd == report[1].courts_by_distance
            key(x) == x.distance_info[1].duration_seconds
            ok == {i \in 1..Len(results) : results[i].distance_info # None}
        IN  /\ \A i \in 1..Len(cbd) : \A j \in 1..Len(cbd) :
                  i < j => key(cbd[i]) <= key(cbd[j])
            /\ Len(cbd) = Cardinality(ok)
            /\ {cbd[i] : i \in 1..Len(cbd)} = {results[i] : i \in ok}

\* C2 witness: a report written from the result list of two pool workers,
\* collected in completion order (court 2 first), whose first entry has the
\* longer duration
C2_Witness ==
    /\ prog = "gmaps"
    /\ report # None
    /\ CourtOf(results[1]) = 2
    /\ Len(results) = 2
    /\ results[1].distance_info # None
    /\ results[2].distance_info # None
    /\ results[1].distance_info[1].duration_seconds
          > results[2].distance_info[1].duration_seconds

\* C3 (as claimed): once the run has ended over N >= 1 courts, the batch has
\* returned all N entries, one per court, and every court in whose handling
\* a fault was raised (a fault of reading the record included) has an error
\* entry.
C3_FaultIsolation ==
    (mpc = "done" /\ ncourts >= 1) =>
        /\ batch = "returned"
        /\ \A t \in Courts :
              /\ Cardinality(EntriesOf(t)) = 1
              /\ fault[t] # None =>
                    \A i \in EntriesOf(t) : ErrorOf(results[i]) # None

Unquit == {s \in Courts : sess[s] \in {"open", "torn"}}

\* C4: when a worker's result is delivered, the browser session created for
\* that court has been quit (or none was created), on every path; no session
\* is left when the batch has returned.
C4_SessionReleased ==
    Parallel =>
        /\ \A t \in Courts : tpc[t] = "done" => sess[t] \in {"none", "quit"}
        /\ batch = "returned" => Unquit = {}

\* C4 witness: the tennis checker's success path, the tab closed by
\* check_tennis_availability, has delivered its result and the session is
\* quit
C4_Witness ==
    /\ prog = "tennis"
    /\ \E t \in Courts :
          /\ tpc[t] = "done"
          /\ tres[t][1].success
          /\ sess[t] = "quit"

\* C5: in every state of a parallel batch with worker count W, the number
\* of courts being probed and the number of browser sessions not yet quit
\* are both at most W.
C5_BoundedConcurrency ==
    (Parallel /\ poolSize > 0) =>
        /\ poolSize <= maxWorkers
        /\ Cardinality(RunningSet) <= poolSize
        /\ Cardinality(Unquit) <= poolSize

\* C5 witness: one worker for two courts: court 1 is being probed with its
\* session open while court 2 waits in the queue
C5_Witness ==
    /\ Parallel
    /\ poolSize = 1
    /\ ncourts = 2
    /\ Running(1)
    /\ sess[1] = "open"
    /\ tpc[2] = "queued"

\* C6: every session is driven and quit only by the probe of the court it
\* was created for, and the orchestrating instance's driver field stays
\* None.
C6_SessionsNotShared ==
    Parallel =>
        /\ \A s \in Courts : users[s] \subseteq {s}
        /\ drv[0] = 0

\* C6 witness: two probes run at once, each having issued commands on its
\* own open session
C6_Witness ==
    /\ Parallel
    /\ ncourts = 2
    /\ sess[1] = "open" /\ sess[2] = "open"
    /\ users[1] = {1} /\ users[2] = {2}

\* C7: court_distances.json is opened for writing at most once per run, by
\* the main thread, and only when every worker of the batch has finished.
C7_ReportWrittenOnceAfterWorkers ==
    prog = "gmaps" =>
        /\ writes <= 1
        /\ (mpc = "saving" \/ writes > 0) =>
              /\ RunningSet = {}
              /\ \A t \in Courts : tpc[t] = "done"

\* C7 witness: the main thread is writing the report of a two-court batch
C7_Witness ==
    /\ prog = "gmaps"
    /\ mpc = "saving"
    /\ ncourts = 2
    /\ poolSize = 2

\* C8 (as claimed): no two running workers hold the same file open for
\* writing.
C8_NoSharedFile ==
    \A t \in Courts : \A u \in Courts :
        (t # u /\ wfile[t] # None /\ wfile[u] # None) => wfile[t] # wfile[u]

FixedTexts ==
    {"No availability data found", "No Google Maps link found",
     "Could not get biking time"}

C10_EmptyIsFailure ==
    \A t \in Courts :
        (Parallel /\ tres[t] # None) =>
            IF prog = "tennis"
            THEN (avail[t] = None \/ avail[t][1].available_times = 0)
                    => ~tres[t][1].success
            ELSE tres[t][1].distance_info = None
                    => tres[t][1].error # None

\* C10 (amended): a court without a distance_info has an error text and
\* one with a distance_info has none; a tennis probe has success = True
\* exactly when extract_availability_info returned its dict and no fault
\* followed, also when that dict holds no time slots; every court of a
\* returned batch has its entry.
C10_EmptyExtractionOutcome ==
    /\ \A t \in Courts :
          (Parallel /\ tres[t] # None) =>
              IF prog = "tennis"
              THEN tres[t][1].success = (avail[t] # None /\ fault[t] = None)
              ELSE (tres[t][1].distance_info = None)
                      = (tres[t][1].error # None)
    /\ (Parallel /\ batch = "returned") => Len(results) = ncourts

\* C10 witness: a tennis probe that found no time slots is recorded with
\* success = True, next to a court without availability data, in a
\* returned batch
C10_Witness ==
    /\ prog = "tennis"
    /\ batch = "returned"
    /\ \E t \in Courts :
          /\ tres[t][1].success
          /\ avail[t][1].available_times = 0
    /\ \E t \in Courts : ~tres[t][1].success

Called(fn) == theCall.fn = fn /\ outcome # None

\* C11: neither estimator raises to its caller, and each returns None when
\* nothing matches: calculate_distance when the wait for the panel times
\* out and when the locators and the patterns leave the distance text or
\* the duration text unfound; get_biking_time_from_maps when the Directions
\* button, the origin field or a text with minutes is not found.
C11_AbsentNeverRaised ==
    /\ Called("calculate_distance") =>
          LET p == theCall.page
              noDistance ==
                 /\ \A i \in 1..Len(p.distEls) : ~IsDistanceText(p.distEls[i])
                 /\ p.srcDist = None
              noDuration ==
                 /\ \A i \in 1..Len(p.durEls) : ~IsDurationText(p.durEls[i])
                 /\ p.srcDur = None
          IN  /\ outcome[1].kind = "return"
              /\ (p.stage = "timeout" \/ noDistance \/ noDuration)
                    => outcome[1].value = None
    /\ Called("get_biking_time_from_maps") =>
          LET p == theCall.page
              noMinutes ==
                 \A i \in 1..Len(p.timeEls) :
                     NumberBefore(p.timeEls[i], "min") = None
          IN  /\ outcome[1].kind = "return"
              /\ (p.stage \in {"nodirections", "noorigin"} \/ noMinutes)
                    => outcome[1].value = None

\* C11 witness: calculate_distance found a distance text on the page but no
\* duration text anywhere, and returned None
C11_Witness ==
    /\ Called("calculate_distance")
    /\ theCall.page.stage = "panel"
    /\ Len(theCall.page.distEls) = 2
    /\ IsDistanceText(theCall.page.distEls[2])
    /\ theCall.page.durEls = <<<<Num(2), Word("mi")>>>>
    /\ theCall.page.srcDur = None
    /\ outcome[1] = Return(None)

\* C12: when the file that lists the courts is not there, the run ends
\* before any work: no pool and no browser session is created, no court is
\* probed, no result is collected and court_distances.json is not opened
\* for writing.
C12_AbsentListingAborts ==
    listing = "absent" =>
        /\ mpc \in {"load", "done"}
        /\ poolSize = 0
        /\ drv[0] = 0
        /\ Unquit = {} /\ RunningSet = {}
        /\ results = <<>>
        /\ writes = 0 /\ report = None

\* C12 witness: the serial calculator has ended its run without a listing
C12_Witness ==
    /\ listing = "absent"
    /\ prog = "dist"
    /\ mpc = "done"

\* The worker count scaled by the number of courts
AutoScaled(n) ==
    IF n < 10 THEN Min(2, n) ELSE IF n < 20 THEN Min(3, n) ELSE Min(4, n)

\* C13 (as claimed): the pool is created with exactly the worker count the
\* caller passed, whatever its value, and with the count scaled by the
\* number of courts when none was passed.
C13_WorkerCount ==
    (Parallel /\ poolSize > 0) =>
        poolSize = IF passed THEN maxWorkers ELSE AutoScaled(ncourts)

\* The result list of the run whose workers finish in submission order
InOrder == [t \in Courts |-> tres[t][1]]

CourtsIn(rs) == {CourtOf(rs[i]) : i \in 1..Len(rs)}

\* C14 (as claimed): the report is the same for every interleaving of the
\* workers: it is the report of the run over the same courts and page
\* content whose workers finish in submission order, entry for entry.
C14_SameOrderEveryInterleaving ==
    (prog = "gmaps" /\ report # None) =>
        report[1] = save_distances(InOrder)

\* C14 (amended): for every interleaving the report holds every court's
\* entry once, in courts_by_distance when it has a distance_info and in
\* failed_courts when it has none, and courts_by_distance is in
\* non-decreasing order of duration, so that the sequence of durations is
\* the same in every run; the order among equal durations and the order of
\* failed_courts are the order in which the results were collected.
C14_SamePartitionAndDurations ==
    (prog = "gmaps" /\ report # None) =>
        LET cbd == report[1].courts_by_distance
            failed == report[1].failed_courts
            key(x) == x.distance_info[1].duration_seconds
            position(t) == MinOf({i \in 1..Len(results) :
                                     CourtOf(results[i]) = t})
        IN  /\ report[1].total_courts = ncourts
            /\ Len(cbd) + Len(failed) = ncourts
            /\ CourtsIn(cbd) =
                  {t \in Courts : tres[t][1].distance_info # None}
            /\ CourtsIn(failed) =
                  {t \in Courts : tres[t][1].distance_info = None}
            /\ \A i \in 1..Len(cbd) : cbd[i] = tres[CourtOf(cbd[i])][1]
            /\ \A i \in 1..Len(failed) :
                  failed[i] = tres[CourtOf(failed[i])][1]
            /\ \A i \in 1..Len(cbd) : \A j \in 1..Len(cbd) :
                  i < j =>
                     /\ key(cbd[i]) <= key(cbd[j])
                     /\ key(cbd[i]) = key(cbd[j]) =>
                           position(CourtOf(cbd[i]))
                              < position(CourtOf(cbd[j]))
            /\ \A i \in 1..Len(failed) : \A j \in 1..Len(failed) :
                  i < j => position(CourtOf(failed[i]))
                              < position(CourtOf(failed[j]))

\* C14 witness: a report of two failed courts of which the second finished
\* first
C14_Witness ==
    /\ prog = "gmaps"
    /\ report # None
    /\ Len(report[1].failed_courts) = 2
    /\ CourtOf(report[1].failed_courts[1]) = 2

DateCalled(form) ==
    /\ Called("parse_date_input")
    /\ theCall.phrase.form = form

\* The clock's reading as a datetime
RefDay == toordinal(theCall.ref.y, theCall.ref.m, theCall.ref.d)

\* The Monday of the week of the clock's reading
RefWeekday == (RefDay + 6) % 7

RefMonday == RefDay - RefWeekday

\* C15 (as claimed): "next <weekday>" gives that weekday's day of the week
\* after the week (Monday to Sunday) of the reference date, never a day of
\* the reference date's own week.
C15_NextWeekdayAfterThisWeek ==
    DateCalled("next") =>
        /\ outcome[1].kind = "return"
        /\ outcome[1].value # None
        /\ outcome[1].value[1].ord
              = RefMonday + 7 + days_of_week[theCall.phrase.day]

\* C16: a day name alone gives the first day on or after the reference date
\* that falls on that weekday: reference + ((target - weekday) mod 7) days,
\* within [reference, reference + 6], the reference date itself when it
\* falls on that weekday; the time of day is the clock's.
C16_BareWeekdayOnOrAfter ==
    DateCalled("day") =>
        LET target == days_of_week[theCall.phrase.day]
            r == outcome[1].value
        IN  /\ outcome[1].kind = "return"
            /\ r # None
            /\ r[1].ord = RefDay + ((target - RefWeekday) % 7)
            /\ r[1].ord \in RefDay..(RefDay + 6)
            /\ (r[1].ord + 6) % 7 = target
            /\ target = RefWeekday => r[1].ord = RefDay
            /\ r[1].tod = theCall.ref.tod

\* C16 witness: "m" on a Tuesday gives the Monday six days later
C16_Witness ==
    /\ DateCalled("day")
    /\ theCall.phrase.day = "m"
    /\ RefWeekday = 1
    /\ outcome[1].value[1].ord = RefDay + 6

\* The day a month and day of the reference year, or of the year after when
\* that day is before the reference day, falls on
ExpectedMonthDay(m, d) ==
    IF toordinal(theCall.ref.y, m, d) < RefDay
    THEN toordinal(theCall.ref.y + 1, m, d)
    ELSE toordinal(theCall.ref.y, m, d)

\* The month and day a "<month> <day>" or a two-field numeric phrase names
NamedMonth ==
    IF theCall.phrase.form = "month" THEN month_patterns[theCall.phrase.month]
    ELSE theCall.phrase.fields[1]

NamedDay ==
    IF theCall.phrase.form = "month" THEN theCall.phrase.day
    ELSE theCall.phrase.fields[2]

\* C17 (as claimed): "<month> <day>" and MM/DD give that month and day in
\* the reference year, and in the next year exactly when that date is
\* before the reference date; the reference date's own month and day gives
\* the reference date's year, at any time of day. (Stated for the months
\* and days that are dates of both years.)
C17_MonthDayRollsOnlyWhenPast ==
    ((DateCalled("month")
         \/ (DateCalled("numeric") /\ Len(theCall.phrase.fields) = 2))
      /\ NamedMonth \in 1..12
      /\ NamedDay \in 1..28) =>
        /\ outcome[1].kind = "return"
        /\ outcome[1].value # None
        /\ outcome[1].value[1].ord = ExpectedMonthDay(NamedMonth, NamedDay)

\* C18 (as claimed): MM/DD/YY and MM/DD/YYYY give the date of the year that
\* is written: 20YY for YY below 50, 19YY from 50 on, the year as it is
\* otherwise, also when that date is past. (Stated for the months and days
\* that are dates of every year.)
C18_ExplicitYearKept ==
    (DateCalled("numeric")
      /\ Len(theCall.phrase.fields) = 3
      /\ theCall.phrase.fields[1] \in 1..12
      /\ theCall.phrase.fields[2] \in 1..28) =>
        LET y == theCall.phrase.fields[3]
            year == IF y >= 100 THEN y ELSE IF y < 50 THEN 2000 + y
                    ELSE 1900 + y
        IN  /\ outcome[1].kind = "return"
            /\ outcome[1].value # None
            /\ outcome[1].value[1].ord
                  = toordinal(year, theCall.phrase.fields[1],
                              theCall.phrase.fields[2])

\* C19 (as claimed): "N min" gives N*60 seconds, "N hour(s)" N*3600 and
\* "H hour M min" H*3600 + M*60: "1 hour 30 min" gives 5400.
C19_DurationSeconds ==
    Called("parse_duration_to_seconds") =>
        LET text == theCall.text
            seconds == outcome[1].value
        IN  /\ (Len(text) = 2 /\ IsNum(text[1])
                  /\ text[2].w \in {"min", "mins"})
                   => seconds = text[1].n * 60
            /\ (Len(text) = 2 /\ IsNum(text[1])
                  /\ text[2].w \in {"hour", "hours"})
                   => seconds = text[1].n * 3600
            /\ Len(text) = 4
                   => seconds = text[1].n * 3600 + text[3].n * 60

RECURSIVE Flatten(_)

\* The tokens of a list of texts, in order
Flatten(texts) ==
    IF texts = <<>> THEN <<>> ELSE Head(texts) \o Flatten(Tail(texts))

\* C20: the result is the first number from 30 to 180, in text order, of
\* the element's own text, else of its parent's text, else of the texts of
\* its siblings that are shorter than 10 characters, else of its
\* duration-class descendants; None when none of them holds such a number.
\* Every value returned is from 30 to 180.
C20_FirstDurationInRange ==
    Called("find_duration_for_time_element") =>
        LET e == theCall.element
            short == SelectSeq(e.siblings,
                        LAMBDA t : t # <<>> /\ CharLen(t) < 10)
            searched == e.text \o e.parent \o Flatten(short) \o Flatten(e.below)
            hits == {i \in 1..Len(searched) :
                        /\ searched[i].w = "#"
                        /\ searched[i].n \in 30..180}
            r == outcome[1].value
        IN  /\ outcome[1].kind = "return"
            /\ hits = {} => r = None
            /\ hits # {} =>
                  r = Some(searched[CHOOSE i \in hits :
                                       \A j \in hits : i <= j].n)
            /\ r # None => r[1] \in 30..180

\* C20 witness: "10:00 AM 60" gives 60, beside a parent that holds another
\* number in range
C20_Witness ==
    /\ Called("find_duration_for_time_element")
    /\ theCall.element.text = <<Num(10), Num(0), Word("am"), Num(60)>>
    /\ theCall.element.parent = <<Num(90), Word("min")>>
    /\ outcome[1].value = Some(60)

\* C21: has_availability is false when the text of any matched element
\* contains "no free spots", whatever the order of the elements; otherwise
\* true when the text of any element contains "available"; otherwise false.
C21_NegativeForcesFalse ==
    (Called("extract_availability_info") /\ theCall.page.stage = "found") =>
        LET els == theCall.page.els
            negative == \E i \in 1..Len(els) : HasNoFreeSpots(els[i])
            positive == \E i \in 1..Len(els) : HasAvailable(els[i])
        IN  outcome[1].value[1].has_availability =
               (IF negative THEN FALSE ELSE positive)

\* C22: setup_distances.py exits with status 0 only when the calculator run
\* by this very run of the script wrote court_distances.json; it exits with
\* a status other than 0 whenever the calculation failed, also when the
\* calculator ended with status 0 and an older court_distances.json exists.
C22_ExitZeroOnlyOnSuccess ==
    Called("setup_distances") =>
        (outcome[1].value = 0 => theCall.run.script = "saved")

\* check_tennis_availability has returned to check_single_court, after it
\* issued a command on the session (so driver.get was called)
ProbeReturned(t) ==
    /\ prog = "tennis"
    /\ tpc[t] = "ret"
    /\ Drv(t) # 0
    /\ t \in users[Drv(t)]

\* C23: once navigation has started, check_tennis_availability closes the
\* tab on every exit path: when the probe succeeds, and when navigation,
\* date selection, extraction or the writing of the snapshot raises.
C23_TabClosedOnEveryExit ==
    \A t \in Courts : ProbeReturned(t) => sess[Drv(t)] = "torn"

Reached(step) ==
    \E i \in 1..Len(outcome[1].value.steps) : outcome[1].value.steps[i] = step

\* C24: once driver.get has loaded the page, extract_availability_info is
\* always reached: when the readiness wait times out, when no date-picker
\* locator matches or finds an element that can be clicked, when a locator
\* raises, and when the calendar opens but no date element matches. None of
\* these makes the probe fail: with the dict extracted and the snapshot
\* dealt with, the dict is returned.
C24_ExtractionAlwaysReached ==
    (/\ Called("check_tennis_availability")
     /\ theCall.probe.get = "ok"
     /\ theCall.probe.wait \in {"ready", "timeout"}) =>
        /\ Reached("extract_availability_info")
        /\ (theCall.probe.page.stage # "sourcefault"
              /\ theCall.probe.snapshot # "fault")
             => outcome[1].value.value # None

\* C24 witness: the readiness wait timed out, the calendar opened and no
\* date element matched day 1; the dict was extracted and returned
C24_Witness ==
    /\ Called("check_tennis_availability")
    /\ theCall.probe.get = "ok"
    /\ theCall.probe.wait = "timeout"
    /\ theCall.probe.picker.day = Some(1)
    /\ theCall.probe.picker.pickers = <<"none", "opens">>
    /\ theCall.probe.picker.calendar = <<[text |-> 2, shown |-> TRUE]>>
    /\ Reached("extract_availability_info")
    /\ outcome[1].value.value = Some([has_availability |-> TRUE])

\* C25: with a target date whose day of the month is d, the only calendar
\* element click_specific_date clicks as the date is one whose text is the
\* bare number d; an element with another number as its text ("15" for
\* d = 1, "21" for d = 2) is never clicked.
C25_OnlyBareDayClicked ==
    (/\ Called("click_specific_date")
     /\ theCall.page.day # None
     /\ outcome[1].value.clicked # None) =>
        outcome[1].value.clicked[1] = theCall.page.day[1]

\* Position of court t in the order the futures finished
Finished(t) == CHOOSE i \in 1..Len(completion) : completion[i] = t

Failed(r) == r.distance_info = None

\* The courts of a list of result dicts, in list order
CourtSeq(rs) == [i \in 1..Len(rs) |-> CourtOf(rs[i])]

\* C26 (as claimed): the results are collected in the order the workers
\* complete, and failed_courts of the saved report lists the failed courts
\* in exactly that order.
C26_FailedInCompletionOrder ==
    (prog = "gmaps" /\ report # None) =>
        /\ CourtSeq(results) = completion
        /\ CourtSeq(report[1].failed_courts)
              = SelectSeq(completion, LAMBDA t : Failed(tres[t][1]))

\* C26 (amended): failed_courts lists the failed courts in the order their
\* results were collected, which is the order as_completed yielded the
\* futures: those that had finished before as_completed was called come
\* first, in any order, and the others follow in the order they finished.
C26_FailedInCollectionOrder ==
    (prog = "gmaps" /\ report # None) =>
        /\ report[1].failed_courts = SelectSeq(results, Failed)
        /\ \A i \in 1..Len(results) : \A j \in 1..Len(results) :
              i < j =>
                 LET a == results[i].court_name
                     b == results[j].court_name
                 IN  /\ b \in initial => a \in initial
                     /\ (a \notin initial /\ b \notin initial)
                           => Finished(a) < Finished(b)

\* C26 witness: two courts failed, the second finished first while
\* as_completed was waiting, and failed_courts lists it first
C26_Witness ==
    /\ prog = "gmaps"
    /\ report # None
    /\ initial = {}
    /\ completion = <<2, 1>>
    /\ CourtSeq(report[1].failed_courts) = <<2, 1>>

\* C27: on one TennisAvailabilityChecker whose driver was set up once, a
\* call of check_tennis_availability (or check_alice_marble,
\* check_court_by_date) that follows an earlier call navigates on a session
\* that can still be used: the earlier call leaves it with an open page.
C27_SessionReusable ==
    prog = "tennis" =>
        \A i \in 1..Len(results) :
            (results[i].op = "get" /\ results[i].call > 1)
                => results[i].on = "open"

\* C29: on one DistanceCalculator, over any sequence of calls of
\* calculate_all_distances and calculate_distance, every navigation goes to
\* a session that was created and not yet quit; a batch creates at most
\* one session and quits it once, after its last court (also when an
\* exception leaves the loop), and no command is sent to a session after
\* its quit.
C29_NoCommandAfterQuit ==
    prog = "dist" =>
        /\ \A i \in 1..Len(results) : results[i].on = "open"
        /\ (mpc = "idle" /\ drv[0] # 0 /\ results # <<>>
              /\ results[Len(results)].op = "quit")
             => sess[drv[0]] = "quit"

\* C28: whenever get_biking_time_from_maps returns a duration, its steps
\* ran in this order: Directions clicked, origin typed, search triggered
\* (by the button, else by a newline), biking mode selected, minutes
\* scanned. No duration is returned by a call in which no biking-mode
\* control was clicked.
C28_DurationOnlyAfterBikingMode ==
    (Called("get_biking_time_from_maps") /\ outcome[1].value # None) =>
        \E search \in {"search button", "newline"} :
            BikingSteps(theCall.page)
               = <<"directions", "origin", search, "biking mode", "scan">>

\* C30: GoogleMapsDistanceCalculator.calculate_all_distances never builds a
\* pool of fewer than one worker: for every list of courts, the empty list
\* with the default max_workers included, the worker count is at least 1
\* and the call returns a list as long as the list of courts instead of
\* raising.
C30_PoolOfAtLeastOne ==
    Called("calculate_all_distances") =>
        /\ outcome[1].kind = "return"
        /\ outcome[1].value.workers >= 1
        /\ outcome[1].value.results = theCall.args.n

====
